---------------------------- MODULE Spec2Model ----------------------------
(***************************************************************************)
(* hello-world-2000: the two entry points (src/src/main.cpp, which calls   *)
(* hello::greet, and src/src/hello.cpp, which builds the record inline),   *)
(* the JSON record they build, its serialization by operator<< and the     *)
(* standard output stream it is written to.                                *)
(*                                                                         *)
(* A byte is a string naming it: "a" is the letter a, "xFF" the byte 0xFF, *)
(* "LF" the line feed, "NUL" the terminator of a C string.  A string, and  *)
(* the text on standard output, is a sequence of bytes.                    *)
(***************************************************************************)
EXTENDS Integers, Sequences, FiniteSets, TLC

\* The largest argc of an invocation.
MaxArgc == 2

\* ------------------------------------------------------------------ bytes

Hello == <<"H", "e", "l", "l", "o">>
World == <<"W", "o", "r", "l", "d">>
ArgsKey == <<"a", "r", "g", "s">>

NUL == "NUL"
LF == "LF"

\* The contents an argument can have: empty, the record's own key and value
\* strings, JSON's metacharacters and a line feed, a valid two-byte UTF-8
\* sequence, an invalid byte after a valid one, a truncated sequence.
ArgStrings ==
    { <<>>,
      Hello,
      World,
      ArgsKey,
      <<"\"", "]", "\\", LF>>,
      <<"xC3", "xA9">>,
      <<"a", "xFF">>,
      <<"xC3">> }

\* argv[i] as the process receives it: the bytes and the terminating NUL.
CStr(s) == s \o <<NUL>>

\* Every argument vector of at most MaxArgc elements (argc = 0 is what an
\* execve with an empty vector gives).
ArgVectors ==
    UNION { [1..n -> {CStr(s) : s \in ArgStrings}] : n \in 0..MaxArgc }

\* The byte value of the bytes object keys are made of (std::map orders the
\* keys of an object by std::less<std::string>: byte-wise).
Code(c) ==
    CASE c = "H" -> 72
      [] c = "W" -> 87
      [] c = "a" -> 97
      [] c = "d" -> 100
      [] c = "e" -> 101
      [] c = "g" -> 103
      [] c = "l" -> 108
      [] c = "o" -> 111
      [] c = "r" -> 114
      [] c = "s" -> 115
      [] c = "\"" -> 34
      [] c = "]" -> 93
      [] c = "\\" -> 92
      [] c = LF -> 10
      [] c = "xC3" -> 195
      [] c = "xA9" -> 169
      [] c = "xFF" -> 255
      [] OTHER -> 0

RECURSIVE LessStr(_, _)
\* a < b for std::string: lexicographic on the bytes.
LessStr(a, b) ==
    IF b = <<>> THEN FALSE
    ELSE IF a = <<>> THEN TRUE
    ELSE IF Code(Head(a)) # Code(Head(b)) THEN Code(Head(a)) < Code(Head(b))
    ELSE LessStr(Tail(a), Tail(b))

RECURSIVE strlen(_)
\* The number of bytes before the first NUL.
strlen(p) == IF Head(p) = NUL THEN 0 ELSE 1 + strlen(Tail(p))

\* std::string(const char*): a copy of the bytes before the NUL.
string_from_cstr(p) == SubSeq(p, 1, strlen(p))

\* A variant that starts after the program name: (argv + 1, argv + argc).
vector_of_strings_skip0(av) ==
    [i \in 1..(IF Len(av) = 0 THEN 0 ELSE Len(av) - 1) |->
        string_from_cstr(av[i + 1])]

\* std::vector<std::string> args(argv, argv + argc): one std::string per
\* pointer in [argv, argv + argc), in order.
vector_of_strings(av) == [i \in 1..Len(av) |-> string_from_cstr(av[i])]

\* A variant that starts after the program name: (argv + 1, argv + argc).
vector_of_pointers_skip0(av) ==
    [i \in 1..(IF Len(av) = 0 THEN 0 ELSE Len(av) - 1) |-> av[i + 1]]

\* std::vector args(argv, argv + argc): deduced std::vector<char*>, the
\* pointers themselves, in order (modelled by what they point to).
vector_of_pointers(av) == [i \in 1..Len(av) |-> av[i]]

\* ------------------------------------------------------------ JSON values

JString(s) == [t |-> "string", v |-> s]
JArray(xs) == [t |-> "array", v |-> xs]
JObject(f) == [t |-> "object", v |-> f]
JNull == [t |-> "null", v |-> <<>>]

\* json from a std::vector<std::string>: an array of its strings.
to_json_strings(v) == JArray([i \in 1..Len(v) |-> JString(v[i])])

\* json from a std::vector<char*>: an array; each char* becomes a string
\* (json's string_t is constructible from char*).
to_json_pointers(v) ==
    JArray([i \in 1..Len(v) |-> JString(string_from_cstr(v[i]))])

\* json's initializer-list constructor: an object when every element is an
\* array of two whose first element is a string (a duplicate key keeps its
\* first value), an array of the elements otherwise.
basic_json_init(list) ==
    LET isPair(e) == e.t = "array" /\ Len(e.v) = 2 /\ e.v[1].t = "string"
        keys == { list[i].v[1].v : i \in 1..Len(list) }
        first(k) == CHOOSE i \in 1..Len(list) :
                        /\ list[i].v[1].v = k
                        /\ \A m \in 1..(i - 1) : list[m].v[1].v # k
    IN  IF \A i \in 1..Len(list) : isPair(list[i])
        THEN JObject([k \in keys |-> list[first(k)].v[2]])
        ELSE JArray(list)

\* A variant with one brace too many: {"args", {args}} nests the array.
hello_record_nested(args) ==
    basic_json_init(
        << basic_json_init(<<JString(Hello), JString(World)>>),
           basic_json_init(<<JString(ArgsKey),
                             basic_json_init(<<to_json_pointers(args)>>)>>) >>)

\* A variant with the greeting's key and value exchanged: {"World", "Hello"}.
hello_record_swapped(args) ==
    basic_json_init(
        << basic_json_init(<<JString(World), JString(Hello)>>),
           basic_json_init(<<JString(ArgsKey), to_json_pointers(args)>>) >>)

\* json j{{"Hello", "World"}, {"args", args}} of hello.cpp.
hello_record(args) ==
    basic_json_init(
        << basic_json_init(<<JString(Hello), JString(World)>>),
           basic_json_init(<<JString(ArgsKey), to_json_pointers(args)>>) >>)

\* hello::greet (core/hello.h): "Hello" mapped to "World", "args" mapped to
\* the input sequence, in the same order.
greet(args) ==
    JObject([k \in {Hello, ArgsKey} |->
                IF k = Hello THEN JString(World) ELSE to_json_strings(args)])


\* ---------------------------------------------------------- serialization

\* What a (partial) serialization has handed to the stream, and whether it
\* ended normally (ok) or by throwing json::type_error 316.
Lit(t) == [text |-> t, ok |-> TRUE]
Thrown(t) == [text |-> t, ok |-> FALSE]

\* r1 then r2: nothing of r2 happens once r1 has thrown.
Cat(r1, r2) ==
    IF r1.ok THEN [text |-> r1.text \o r2.text, ok |-> r2.ok] ELSE r1

\* The UTF-8 decoder's view of a byte.
ByteClass(c) ==
    CASE c = "xC3" -> "lead2"
      [] c = "xA9" -> "cont"
      [] c = "xFF" -> "bad"
      [] OTHER -> "ascii"

\* A variant that copies the quote instead of escaping it.
escape_quote_raw(c) ==
    CASE c = "\\" -> <<"\\", "\\">>
      [] c = LF -> <<"\\", "n">>
      [] OTHER -> <<c>>

\* A variant that copies the line feed instead of escaping it.
escape_lf_raw(c) ==
    CASE c = "\"" -> <<"\\", "\"">>
      [] c = "\\" -> <<"\\", "\\">>
      [] OTHER -> <<c>>

\* The text written for one ASCII byte: the quote, the backslash and the
\* control characters are escaped, the rest are copied.
escape(c) ==
    CASE c = "\"" -> <<"\\", "\"">>
      [] c = "\\" -> <<"\\", "\\">>
      [] c = LF -> <<"\\", "n">>
      [] OTHER -> <<c>>

RECURSIVE dump_escaped_from(_, _, _)
\* serializer::dump_escaped from byte i on: pending is the lead byte of an
\* unfinished sequence (<<>> when the decoder accepts), acc the bytes held
\* in string_buffer.  The buffer is written when the string ends; an invalid
\* or truncated sequence throws (error_handler_t::strict) before the buffer
\* is written, so nothing of the string reaches the stream.
dump_escaped_from(s, pending, acc) ==
    IF s = <<>>
    THEN IF pending = <<>> THEN Lit(acc) ELSE Thrown(<<>>)
    ELSE LET c == Head(s)
             cls == ByteClass(c)
         IN  IF pending = <<>>
             THEN CASE cls = "ascii" ->
                           dump_escaped_from(Tail(s), <<>>, acc \o escape(c))
                    [] cls = "lead2" ->
                           dump_escaped_from(Tail(s), <<c>>, acc)
                    [] OTHER -> Thrown(<<>>)
             ELSE IF cls = "cont"
                  THEN dump_escaped_from(Tail(s), <<>>, acc \o pending \o <<c>>)
                  ELSE Thrown(<<>>)

dump_escaped(s) == dump_escaped_from(s, <<>>, <<>>)

RECURSIVE SortedKeys(_)
\* The keys of an object in std::map's iteration order.
SortedKeys(S) ==
    IF S = {} THEN <<>>
    ELSE LET k == CHOOSE x \in S : \A y \in S \ {x} : LessStr(x, y)
         IN  <<k>> \o SortedKeys(S \ {k})

RECURSIVE dump(_), dump_elements(_, _), dump_members(_, _, _)
\* serializer::dump, compact (operator<< with width 0): the opening quote,
\* bracket or brace is written before what follows it is looked at.
dump(j) ==
    CASE j.t = "string" ->
             Cat(Lit(<<"\"">>), Cat(dump_escaped(j.v), Lit(<<"\"">>)))
      [] j.t = "array" ->
             IF Len(j.v) = 0 THEN Lit(<<"[", "]">>)
             ELSE Cat(Lit(<<"[">>), Cat(dump_elements(j.v, 1), Lit(<<"]">>)))
      [] j.t = "object" ->
             IF DOMAIN j.v = {} THEN Lit(<<"{", "}">>)
             ELSE Cat(Lit(<<"{">>),
                      Cat(dump_members(j.v, SortedKeys(DOMAIN j.v), 1),
                          Lit(<<"}">>)))
      [] OTHER -> Lit(<<"n", "u", "l", "l">>)

dump_elements(xs, i) ==
    IF i = Len(xs) THEN dump(xs[i])
    ELSE Cat(dump(xs[i]), Cat(Lit(<<",">>), dump_elements(xs, i + 1)))

dump_members(f, ks, i) ==
    LET member == Cat(Lit(<<"\"">>),
                      Cat(dump_escaped(ks[i]),
                          Cat(Lit(<<"\"", ":">>), dump(f[ks[i]]))))
    IN  IF i = Len(ks) THEN member
        ELSE Cat(member, Cat(Lit(<<",">>), dump_members(f, ks, i + 1)))

\* ------------------------------------------------------------------ state

Programs == {"main", "hello"}

\* The capacities of the stdio buffer behind std::cout: 0 is an unbuffered
\* stdout, 16 stands for a buffer smaller than the record, 4096 for one that
\* holds the whole line.
BufCaps == {0, 16, 4096}

NoResult == [ran |-> FALSE, out |-> <<>>, status |-> -1]

VARIABLES
    argv,     \* the argument vector of the invocation (C strings)
    cap,      \* the capacity of stdout's buffer
    dev,      \* "ok", or "err": write(2) on standard output fails
    oom,      \* the step at which memory runs out, or "none"
    prog,     \* the entry point that is running or ran last, or "none"
    pc,       \* where that process is
    args,     \* the vector main collected
    j,        \* the record main built
    buf,      \* bytes std::cout holds, not yet written
    out,      \* bytes that reached standard output
    badbit,   \* std::cout's badbit
    exc,      \* the exception in flight, or "none"
    status,   \* the exit status of the process, -1 while it runs
    events,   \* what the process has done, in order
    res       \* per entry point: what its finished run left

vars == <<argv, cap, dev, oom, prog, pc, args, j, buf, out, badbit, exc,
          status, events, res>>

env == <<argv, cap, dev, oom>>

Init ==
    /\ argv \in ArgVectors
    /\ cap \in BufCaps
    /\ dev \in {"ok", "err"}
    /\ oom \in {"none", "collect", "build", "dump"}
    /\ prog = "none"
    /\ pc = "idle"
    /\ args = <<>>
    /\ j = JNull
    /\ buf = <<>>
    /\ out = <<>>
    /\ badbit = FALSE
    /\ exc = "none"
    /\ status = -1
    /\ events = <<>>
    /\ res = [p \in Programs |-> NoResult]

\* ----------------------------------------------------------------- stream

\* How many of n buffered bytes a buffer of capacity c has had to write.
FlushCount(n, c) == IF c = 0 THEN n ELSE (n \div c) * c

\* An ostream write of data on stream state st = [buf, out, bad]: nothing
\* when badbit is set; else the bytes join the buffer, and every time the
\* buffer fills it is written out, which on a failing device sets badbit
\* and loses the bytes.
cout_write(st, data) ==
    IF st.bad THEN st
    ELSE LET total == st.buf \o data
             n == FlushCount(Len(total), cap)
         IN  IF n = 0 THEN [st EXCEPT !.buf = total]
             ELSE IF dev = "ok"
                  THEN [buf |-> SubSeq(total, n + 1, Len(total)),
                        out |-> st.out \o SubSeq(total, 1, n),
                        bad |-> FALSE]
                  ELSE [buf |-> <<>>, out |-> st.out, bad |-> TRUE]

\* A variant that ends the process without flushing (as _exit does).
exit_no_flush(st) == st.out

\* exit()'s flush of stdout: the buffered bytes are written if the device
\* takes them; a failure is not reported to anyone.
exit_flush(st) ==
    IF dev = "ok" THEN st.out \o st.buf ELSE st.out

\* The status of a process that returns from main: main has no return
\* statement, and flowing off its end is return 0 whatever std::cout's state.
main_return_status(bad) == 0

\* A variant in which main catches the exception and returns normally.
caught_status == main_return_status(FALSE)

\* The status of a process ended by std::terminate -> abort(): SIGABRT.
terminate_status == 128 + 6

\* ---------------------------------------------------------------- actions

\* The operating system runs one of the two programs on argv.
Exec(p) ==
    /\ pc \in {"idle", "exited"}
    /\ ~res[p].ran
    /\ prog' = p
    /\ pc' = "collect"
    /\ args' = <<>>
    /\ j' = JNull
    /\ buf' = <<>>
    /\ out' = <<>>
    /\ badbit' = FALSE
    /\ exc' = "none"
    /\ status' = -1
    /\ events' = <<>>
    /\ UNCHANGED <<env, res>>

\* std::vector<...> args(argv, argv + argc); an empty range allocates
\* nothing.
CollectArgs ==
    /\ pc = "collect" /\ exc = "none"
    /\ IF oom = "collect" /\ Len(argv) > 0
       THEN /\ exc' = "bad_alloc"
            /\ UNCHANGED <<args, pc, events>>
       ELSE /\ args' = IF prog = "main" THEN vector_of_strings(argv)
                                        ELSE vector_of_pointers(argv)
            /\ pc' = "build"
            /\ events' = Append(events, "collect")
            /\ exc' = "none"
    /\ UNCHANGED <<env, prog, j, buf, out, badbit, status, res>>

\* auto j = hello::greet(args);  /  json j{{"Hello", "World"}, {"args", args}};
BuildRecord ==
    /\ pc = "build" /\ exc = "none"
    /\ IF oom = "build"
       THEN /\ exc' = "bad_alloc"
            /\ UNCHANGED <<j, pc, events>>
       ELSE /\ j' = IF prog = "main" THEN greet(args) ELSE hello_record(args)
            /\ pc' = "write"
            /\ events' = Append(events, "build")
            /\ exc' = "none"
    /\ UNCHANGED <<env, prog, args, buf, out, badbit, status, res>>

\* std::cout << j: the serializer writes to the stream as it goes, and an
\* exception leaves what it wrote so far in the stream.
WriteRecord ==
    /\ pc = "write" /\ exc = "none"
    /\ IF oom = "dump"
       THEN /\ exc' = "bad_alloc"
            /\ UNCHANGED <<pc, events, buf, out, badbit>>
       ELSE LET d == dump(j)
                st == cout_write([buf |-> buf, out |-> out, bad |-> badbit],
                                 d.text)
            IN  /\ buf' = st.buf
                /\ out' = st.out
                /\ badbit' = st.bad
                /\ IF d.ok
                   THEN /\ pc' = "newline"
                        /\ events' = Append(events, "write_record")
                        /\ exc' = "none"
                   ELSE /\ exc' = "type_error"
                        /\ UNCHANGED <<pc, events>>
    /\ UNCHANGED <<env, prog, args, j, status, res>>

\* ... << "\n"
WriteNewline ==
    /\ pc = "newline" /\ exc = "none"
    /\ LET st == cout_write([buf |-> buf, out |-> out, bad |-> badbit],
                            <<LF>>)
       IN  /\ buf' = st.buf
           /\ out' = st.out
           /\ badbit' = st.bad
    /\ pc' = "return"
    /\ events' = Append(events, "write_newline")
    /\ UNCHANGED <<env, prog, args, j, exc, status, res>>

\* The closing brace of main: return 0, then exit flushes stdout.
ReturnFromMain ==
    /\ pc = "return" /\ exc = "none"
    /\ LET o == exit_flush([buf |-> buf, out |-> out, bad |-> badbit])
           s == main_return_status(badbit)
       IN  /\ out' = o
           /\ status' = s
           /\ res' = [res EXCEPT ![prog] =
                         [ran |-> TRUE, out |-> o, status |-> s]]
    /\ buf' = <<>>
    /\ pc' = "exited"
    /\ events' = Append(events, "exit")
    /\ UNCHANGED <<env, prog, args, j, badbit, exc>>

\* main has no handler: the exception leaves main, std::terminate calls
\* abort, and abort does not flush stdout.
Unwind ==
    /\ exc # "none" /\ pc # "exited"
    /\ status' = terminate_status
    /\ res' = [res EXCEPT ![prog] =
                  [ran |-> TRUE, out |-> out, status |-> terminate_status]]
    /\ buf' = <<>>
    /\ pc' = "exited"
    /\ events' = Append(events, "abort")
    /\ UNCHANGED <<env, prog, args, j, out, badbit, exc>>

Next ==
    \/ \E p \in Programs : Exec(p)
    \/ CollectArgs
    \/ BuildRecord
    \/ WriteRecord
    \/ WriteNewline
    \/ ReturnFromMain
    \/ Unwind

Spec == Init /\ [][Next]_vars

\* ------------------------------------------------- reading the text back

\* A JSON text reader, used to state what parsing standard output yields.
\* A result is [ok, val, next]: next is the index after what was read.
NoParse == [ok |-> FALSE, val |-> JNull, next |-> 0]

RECURSIVE SkipWs(_, _)
\* The first index from i on that holds no white space.
SkipWs(t, i) == IF i <= Len(t) /\ t[i] = LF THEN SkipWs(t, i + 1) ELSE i

RECURSIVE ReadChars(_, _, _)
\* The characters of a string up to its closing quote: an escape is undone,
\* a raw control character or an ill-formed UTF-8 sequence is refused.
ReadChars(t, i, acc) ==
    IF i > Len(t) THEN NoParse
    ELSE CASE t[i] = "\"" -> [ok |-> TRUE, val |-> JString(acc), next |-> i + 1]
           [] t[i] = "\\" ->
                  IF i + 1 > Len(t) THEN NoParse
                  ELSE CASE t[i + 1] = "\"" -> ReadChars(t, i + 2, Append(acc, "\""))
                         [] t[i + 1] = "\\" -> ReadChars(t, i + 2, Append(acc, "\\"))
                         [] t[i + 1] = "n" -> ReadChars(t, i + 2, Append(acc, LF))
                         [] OTHER -> NoParse
           [] ByteClass(t[i]) = "lead2" ->
                  IF i + 1 <= Len(t) /\ ByteClass(t[i + 1]) = "cont"
                  THEN ReadChars(t, i + 2, acc \o <<t[i], t[i + 1]>>)
                  ELSE NoParse
           [] ByteClass(t[i]) \in {"cont", "bad"} -> NoParse
           [] t[i] = LF -> NoParse
           [] OTHER -> ReadChars(t, i + 1, Append(acc, t[i]))

RECURSIVE ReadValue(_, _), ReadElements(_, _, _), ReadMembers(_, _, _)
ReadValue(t, i0) ==
    LET i == SkipWs(t, i0)
    IN  IF i > Len(t) THEN NoParse
        ELSE CASE t[i] = "\"" -> ReadChars(t, i + 1, <<>>)
               [] t[i] = "[" ->
                      IF i + 1 <= Len(t) /\ t[i + 1] = "]"
                      THEN [ok |-> TRUE, val |-> JArray(<<>>), next |-> i + 2]
                      ELSE ReadElements(t, i + 1, <<>>)
               [] t[i] = "{" ->
                      IF i + 1 <= Len(t) /\ t[i + 1] = "}"
                      THEN [ok |-> TRUE, val |-> JObject(<<>>), next |-> i + 2]
                      ELSE ReadMembers(t, i + 1, <<>>)
               [] OTHER -> NoParse

\* The elements of an array after its "[" or a ",": acc holds those read.
ReadElements(t, i, acc) ==
    LET e == ReadValue(t, i)
    IN  IF ~e.ok \/ e.next > Len(t) THEN NoParse
        ELSE CASE t[e.next] = "," -> ReadElements(t, e.next + 1, Append(acc, e.val))
               [] t[e.next] = "]" ->
                      [ok |-> TRUE, val |-> JArray(Append(acc, e.val)),
                       next |-> e.next + 1]
               [] OTHER -> NoParse

\* The members of an object after its "{" or a ",": acc holds the
\* <<key, value>> pairs read.
ReadMembers(t, i, acc) ==
    IF i > Len(t) \/ t[i] # "\"" THEN NoParse
    ELSE LET k == ReadChars(t, i + 1, <<>>)
         IN  IF ~k.ok \/ k.next > Len(t) \/ t[k.next] # ":" THEN NoParse
             ELSE LET e == ReadValue(t, k.next + 1)
                      all == Append(acc, <<k.val.v, e.val>>)
                      keys == { all[n][1] : n \in 1..Len(all) }
                      last(x) == CHOOSE n \in 1..Len(all) :
                                     /\ all[n][1] = x
                                     /\ \A m \in (n + 1)..Len(all) : all[m][1] # x
                  IN  IF ~e.ok \/ e.next > Len(t) THEN NoParse
                      ELSE CASE t[e.next] = "," ->
                                    ReadMembers(t, e.next + 1, all)
                             [] t[e.next] = "}" ->
                                    [ok |-> TRUE,
                                     val |-> JObject([x \in keys |-> all[last(x)][2]]),
                                     next |-> e.next + 1]
                             [] OTHER -> NoParse

\* The value of a whole text: one value, white space around it, nothing else.
json_parse(t) ==
    LET r == ReadValue(t, 1)
    IN  IF r.ok /\ SkipWs(t, r.next) = Len(t) + 1 THEN r ELSE NoParse

\* ----------------------------------------------------------------- claims

Did(e) == \E i \in 1..Len(events) : events[i] = e

IsPrefix(a, b) == Len(a) <= Len(b) /\ a = SubSeq(b, 1, Len(a))

\* The sequence of strings the running entry point hands to the builder.
PassedStrings ==
    IF prog = "main" THEN args
    ELSE [i \in 1..Len(args) |-> string_from_cstr(args[i])]

\* A run that ended and in which nothing failed.
Succeeded == pc = "exited" /\ exc = "none" /\ dev = "ok"

\* A run that ended in failure.
Failed == pc = "exited" /\ status # 0

SuccessOrder == <<"collect", "build", "write_record", "write_newline", "exit">>

\* C1: once the record is built, its "args" value is an array with as many
\* elements as the sequence handed to the builder, and its i-th element is
\* the i-th string of that sequence: nothing dropped, added, reordered,
\* deduplicated or transformed.
C1_ArgsIdentity ==
    Did("build") =>
        /\ j.t = "object"
        /\ ArgsKey \in DOMAIN j.v
        /\ j.v[ArgsKey].t = "array"
        /\ Len(j.v[ArgsKey].v) = Len(PassedStrings)
        /\ \A i \in 1..Len(PassedStrings) :
              /\ j.v[ArgsKey].v[i].t = "string"
              /\ j.v[ArgsKey].v[i].v = PassedStrings[i]

\* C1's case: a record built from two equal arguments keeps both.
C1_Witness ==
    /\ Did("build")
    /\ Len(PassedStrings) = 2
    /\ PassedStrings[1] = PassedStrings[2]
    /\ Len(j.v[ArgsKey].v) = 2

\* C2: once the record is built it has the key "Hello", and the value there
\* is the string "World", whatever the arguments are.
C2_HelloWorld ==
    Did("build") =>
        /\ j.t = "object"
        /\ Hello \in DOMAIN j.v
        /\ j.v[Hello].t = "string"
        /\ j.v[Hello].v = World

\* C2's case: the arguments themselves are "Hello" and "args".
C2_Witness ==
    /\ Did("build")
    /\ Len(PassedStrings) = 2
    /\ PassedStrings[1] = ArgsKey
    /\ PassedStrings[2] = Hello
    /\ j.v[Hello].v = World

\* C3: the record is an object with exactly the keys "Hello" and "args", the
\* value under "args" is an array, and the text a successful run wrote
\* parses to an object with exactly those two keys.
C3_TwoKeys ==
    /\ Did("build") =>
          /\ j.t = "object"
          /\ DOMAIN j.v = {Hello, ArgsKey}
          /\ j.v[ArgsKey].t = "array"
    /\ Succeeded =>
          LET r == json_parse(out)
          IN  /\ r.ok
              /\ r.val.t = "object"
              /\ DOMAIN r.val.v = {Hello, ArgsKey}

\* C3's case: a run without arguments wrote its line, which parses to an
\* object whose "args" is the empty array.
C3_Witness ==
    /\ Succeeded
    /\ Len(argv) = 0
    /\ json_parse(out).ok
    /\ json_parse(out).val.v[ArgsKey] = JArray(<<>>)

\* C4: the events of a run are a prefix of collect, build, write the record,
\* write the newline, exit (or such a prefix ended by the abort); a run in
\* which nothing failed went through all five, ended with status 0 and left
\* on standard output the serialized record and one newline: one line.
C4_OrderAndOneLine ==
    /\ IF Did("abort")
       THEN /\ events[Len(events)] = "abort"
            /\ IsPrefix(SubSeq(events, 1, Len(events) - 1), SuccessOrder)
       ELSE IsPrefix(events, SuccessOrder)
    /\ Succeeded =>
          /\ events = SuccessOrder
          /\ status = 0
          /\ out = dump(j).text \o <<LF>>
          /\ Cardinality({i \in 1..Len(out) : out[i] = LF}) = 1

\* C4's case: a run whose arguments hold a line feed and whose record is
\* larger than the buffer ended successfully.
C4_Witness ==
    /\ Succeeded
    /\ cap = 16
    /\ \E i \in 1..Len(PassedStrings) : \E n \in 1..Len(PassedStrings[i]) :
          PassedStrings[i][n] = LF
    /\ out # <<>>

\* C5: once the arguments are collected, the sequence handed to the builder
\* has argc elements and its i-th string, NUL-terminated, is argv[i]; the
\* record's "args" then starts with the program's name.
C5_ArgvVerbatim ==
    /\ Did("collect") =>
          /\ Len(PassedStrings) = Len(argv)
          /\ \A i \in 1..Len(PassedStrings) : CStr(PassedStrings[i]) = argv[i]
    /\ (Did("build") /\ Len(argv) >= 1) =>
          /\ j.t = "object"
          /\ ArgsKey \in DOMAIN j.v
          /\ j.v[ArgsKey].t = "array"
          /\ Len(j.v[ArgsKey].v) >= 1
          /\ j.v[ArgsKey].v[1].t = "string"
          /\ CStr(j.v[ArgsKey].v[1].v) = argv[1]

\* C5's case: an invocation with the program name alone.
C5_Witness ==
    /\ Did("build")
    /\ prog = "main"
    /\ Len(argv) = 1
    /\ argv[1] = CStr(Hello)
    /\ j.v[ArgsKey].v = <<JString(Hello)>>

\* C6: a run in which writing to standard output failed ends with a
\* non-zero status, and a run that ends with status 0 wrote the whole line.
C6_WriteFailureReported ==
    pc = "exited" =>
        /\ dev = "err" => status # 0
        /\ status = 0 => out = dump(j).text \o <<LF>>

\* C7: a run in which collecting the arguments, building the record or
\* serializing it threw ends by the abort, never by main's return, and its
\* status is not 0.
C7_FailureNonZero ==
    (pc = "exited" /\ exc # "none") =>
        /\ status # 0
        /\ events[Len(events)] = "abort"
        /\ ~Did("exit")

\* C7's case: serialization threw at an invalidly encoded argument.
C7_Witness ==
    /\ pc = "exited"
    /\ exc = "type_error"
    /\ status = terminate_status

\* C8 as stated: a run that ended in failure wrote nothing.
C8_NothingOnFailure == Failed => out = <<>>

\* C8 as amended: a run that ended in failure left on standard output no
\* newline and at most a prefix of what the serializer had written when it
\* threw; nothing at all when the failure was not the serializer's.
C8_PrefixOnFailure ==
    Failed =>
        /\ IsPrefix(out, dump(j).text)
        /\ \A i \in 1..Len(out) : out[i] # LF
        /\ exc # "type_error" => out = <<>>

\* C8's case: the failed run left a prefix of the record.
C8_Witness ==
    /\ Failed
    /\ exc = "type_error"
    /\ out # <<>>
    /\ IsPrefix(out, dump(j).text)

\* C10: when both entry points have run on the same argv in the same
\* environment, they left the same text on standard output and the same
\* exit status.
C10_EntryPointsAgree ==
    (res["main"].ran /\ res["hello"].ran) =>
        /\ res["main"].out = res["hello"].out
        /\ res["main"].status = res["hello"].status

\* C10's case: both ran on two arguments and succeeded.
C10_Witness ==
    /\ res["main"].ran
    /\ res["hello"].ran
    /\ Len(argv) = 2
    /\ res["main"].status = 0
    /\ res["hello"].out # <<>>

=============================================================================
